---- MODULE Spec2Model ----
(***************************************************************************)
(* Statistics Toolkit CLI (stats_cli.py): the descriptive statistics, the  *)
(* one-sample t-test, the DataManager store and the interactive menus.     *)
(*                                                                         *)
(* Numbers.  A float is a record [k, n, d]: k = "fin" is the rational n/d  *)
(* (d > 0, lowest terms), k = "inf" is the infinity of sign n, k = "nan"   *)
(* is NaN.  A root (a standard deviation, a square root, a t statistic) is *)
(* a record [k, s, n, d]: k = "fin" is s * sqrt(n/d) with s in {-1, 0, 1}, *)
(* so that sqrt(variance) and the t statistic are kept exactly.            *)
(* Arithmetic follows IEEE 754 as numpy applies it: x/0 is an infinity,    *)
(* 0/0 is NaN, NaN propagates and every comparison with NaN is false.      *)
(***************************************************************************)
EXTENDS Integers, Sequences, FiniteSets, TLC

\* Bounds of the model: the longest sample and the largest sample value.
MaxLen == 4
MaxVal == 1

Values == (0 - 1)..MaxVal

SeqsUpTo(S, k) == UNION {[1..m -> S] : m \in 0..k}

Samples == SeqsUpTo(Values, MaxLen)

----------------------------------------------------------------------------
\* Floats

Abs(x) == IF x < 0 THEN 0 - x ELSE x

Sgn(x) == IF x < 0 THEN 0 - 1 ELSE IF x > 0 THEN 1 ELSE 0

\* the element of a one-element set; {F(v) : v \in {e}} evaluates e once
The(S) == CHOOSE x \in S : TRUE

RECURSIVE Gcd(_, _)
Gcd(a, b) == IF b = 0 THEN a ELSE The({Gcd(b, r) : r \in {a % b}})

NaN == [k |-> "nan", n |-> 0, d |-> 1]

Inf(s) == [k |-> "inf", n |-> s, d |-> 1]

Fin(a, b) ==
    LET g == Gcd(Abs(a), Abs(b))
    IN  [k |-> "fin", n |-> (Sgn(b) * a) \div g, d |-> Abs(b) \div g]

Flt(i) == Fin(i, 1)

IsNaN(x) == x.k = "nan"

IsFin(x) == x.k = "fin"

\* the sign of a float that is not NaN
FSgn(x) == Sgn(x.n)

FNeg(x) == [x EXCEPT !.n = 0 - x.n]

FAdd(x, y) ==
    IF IsNaN(x) \/ IsNaN(y) THEN NaN
    ELSE IF x.k = "inf" THEN (IF y.k = "inf" /\ y.n # x.n THEN NaN ELSE x)
    ELSE IF y.k = "inf" THEN y
    ELSE Fin(x.n * y.d + y.n * x.d, x.d * y.d)

FSub(x, y) == FAdd(x, FNeg(y))

FMul(x, y) ==
    IF IsNaN(x) \/ IsNaN(y) THEN NaN
    ELSE IF x.k = "inf" \/ y.k = "inf"
         THEN (IF FSgn(x) * FSgn(y) = 0 THEN NaN ELSE Inf(FSgn(x) * FSgn(y)))
    ELSE Fin(x.n * y.n, x.d * y.d)

FDiv(x, y) ==
    IF IsNaN(x) \/ IsNaN(y) THEN NaN
    ELSE IF x.k = "inf" THEN (IF y.k = "inf" THEN NaN
                             ELSE Inf(x.n * (IF FSgn(y) < 0 THEN 0 - 1 ELSE 1)))
    ELSE IF y.k = "inf" THEN Flt(0)
    ELSE IF y.n = 0 THEN (IF x.n = 0 THEN NaN ELSE Inf(FSgn(x)))
    ELSE Fin(x.n * y.d, x.d * y.n)

FLt(x, y) ==
    IF IsNaN(x) \/ IsNaN(y) THEN FALSE
    ELSE IF x.k = "inf" THEN x.n < 0 /\ ~(y.k = "inf" /\ y.n < 0)
    ELSE IF y.k = "inf" THEN y.n > 0
    ELSE x.n * y.d < y.n * x.d

FGt(x, y) == FLt(y, x)

FLe(x, y) == ~IsNaN(x) /\ ~IsNaN(y) /\ ~FLt(y, x)

\* Roots: s * sqrt(n/d)

RNaN == [k |-> "nan", s |-> 0, n |-> 0, d |-> 1]

RInf(s) == [k |-> "inf", s |-> s, n |-> 0, d |-> 1]

RFin(s, q) == [k |-> "fin", s |-> IF q.n = 0 THEN 0 ELSE s, n |-> q.n, d |-> q.d]

\* np.sqrt of a float (NaN for a negative one)
FSqrt(x) ==
    IF IsNaN(x) THEN RNaN
    ELSE IF x.k = "inf" THEN (IF x.n > 0 THEN RInf(1) ELSE RNaN)
    ELSE IF x.n < 0 THEN RNaN
    ELSE RFin(1, x)

\* the square of a finite root, a float
RSq(r) == Fin(r.n, r.d)

\* root / root
RDiv(x, y) ==
    IF x.k = "nan" \/ y.k = "nan" THEN RNaN
    ELSE IF x.k = "inf" THEN (IF y.k = "inf" THEN RNaN
                             ELSE RInf(x.s * (IF y.s < 0 THEN 0 - 1 ELSE 1)))
    ELSE IF y.k = "inf" THEN RFin(0, Flt(0))
    ELSE IF y.s = 0 THEN (IF x.s = 0 THEN RNaN ELSE RInf(x.s))
    ELSE RFin(x.s * y.s, FDiv(RSq(x), RSq(y)))

\* float / root
FOverR(x, y) ==
    IF IsNaN(x) THEN RNaN
    ELSE IF x.k = "inf" THEN RDiv(RInf(x.n), y)
    ELSE RDiv(RFin(FSgn(x), FMul(x, x)), y)

\* abs() of a root
RAbs(r) == IF r.k = "nan" THEN r ELSE [r EXCEPT !.s = Abs(r.s)]

----------------------------------------------------------------------------
\* numpy reductions over a sample (a sequence of integers)

RECURSIVE SumSeq(_)
SumSeq(s) ==
    IF s = <<>> THEN Flt(0) ELSE The({FAdd(s[1], rest) : rest \in {SumSeq(Tail(s))}})

Floats(data) == [i \in 1..Len(data) |-> Flt(data[i])]

\* np.sum
NpSum(data) == SumSeq(Floats(data))

\* np.mean: the sum over n, NaN (0/0) for an empty sample
NpMean(data) == FDiv(NpSum(data), Flt(Len(data)))

RECURSIVE Insert(_, _)
Insert(x, s) ==
    IF s = <<>> THEN <<x>>
    ELSE IF x <= s[1] THEN <<x>> \o s
    ELSE <<s[1]>> \o Insert(x, Tail(s))

RECURSIVE NpSort(_)
NpSort(data) ==
    IF data = <<>> THEN <<>>
    ELSE The({Insert(data[1], rest) : rest \in {NpSort(Tail(data))}})

Raise(e) == [kind |-> "raise", exc |-> e]

Return(v) == [kind |-> "return", value |-> v]

----------------------------------------------------------------------------
\* numpy order statistics

\* np.median: the middle value, or the mean of the two middle values, of the
\* sorted sample; NaN for an empty one
NpMedian(data) ==
    LET n == Len(data)
        s == NpSort(data)
    IN  IF n = 0 THEN NaN
        ELSE IF n % 2 = 0 THEN Fin(s[n \div 2] + s[n \div 2 + 1], 2)
        ELSE Flt(s[n \div 2 + 1])

\* np.percentile interpolating in the sample as given, the np.sort left out
NpPercentileUnsorted(data, q) ==
    LET n    == Len(data)
        idx  == Fin(q * (n - 1), 100)
        lo   == idx.n \div idx.d
        frac == FSub(idx, Flt(lo))
        a    == data[lo + 1]
        b    == data[IF lo + 2 <= n THEN lo + 2 ELSE n]
    IN  FAdd(Flt(a), FMul(frac, Flt(b - a)))

\* np.percentile(data, q), linear interpolation, for a non-empty sample: the
\* virtual index q/100 * (n-1) into the sorted sample, interpolated between the
\* two neighbouring order statistics
NpPercentile(data, q) ==
    LET n    == Len(data)
        s    == NpSort(data)
        idx  == Fin(q * (n - 1), 100)
        lo   == idx.n \div idx.d
        frac == FSub(idx, Flt(lo))
        a    == s[lo + 1]
        b    == s[IF lo + 2 <= n THEN lo + 2 ELSE n]
    IN  FAdd(Flt(a), FMul(frac, Flt(b - a)))

\* np.max, np.min of a non-empty sample
NpMax(data) == CHOOSE x \in {data[i] : i \in 1..Len(data)} :
                   \A j \in 1..Len(data) : data[j] <= x

NpMin(data) == CHOOSE x \in {data[i] : i \in 1..Len(data)} :
                   \A j \in 1..Len(data) : x <= data[j]

\* np.var with the ddof argument dropped: the population variance (divisor n)
NpVarPopulation(data, ddof) ==
    LET n    == Len(data)
        mean == NpMean(data)
        sq   == [i \in 1..n |-> FMul(FSub(Flt(data[i]), mean), FSub(Flt(data[i]), mean))]
    IN  IF n = 0 THEN NaN ELSE FDiv(SumSeq(sq), Flt(n))

\* np.var(data, ddof): the mean of the squared deviations from the mean, the
\* divisor being max(n - ddof, 0)
NpVar(data, ddof) ==
    LET n    == Len(data)
        mean == NpMean(data)
        sq   == [i \in 1..n |-> FMul(FSub(Flt(data[i]), mean), FSub(Flt(data[i]), mean))]
        div  == IF n - ddof > 0 THEN n - ddof ELSE 0
    IN  IF n = 0 THEN NaN ELSE FDiv(SumSeq(sq), Flt(div))

\* np.std(data, ddof): the square root of np.var
NpStd(data, ddof) == FSqrt(NpVar(data, ddof))

\* a[mask]: the elements of a whose mask entry is TRUE, in order
RECURSIVE MaskSelect(_, _)
MaskSelect(a, mask) ==
    IF a = <<>> THEN <<>>
    ELSE (IF mask[1] THEN <<a[1]>> ELSE <<>>) \o MaskSelect(Tail(a), Tail(mask))

\* np.unique(data, return_counts=True): the sorted distinct values and, for
\* each, the number of its occurrences
RECURSIVE Dedup(_)
Dedup(s) ==
    IF Len(s) <= 1 THEN s
    ELSE IF s[1] = s[2] THEN Dedup(Tail(s))
    ELSE <<s[1]>> \o Dedup(Tail(s))

Count(data, v) == Cardinality({i \in 1..Len(data) : data[i] = v})

NpUnique(data) ==
    LET values == Dedup(NpSort(data))
    IN  [values |-> values, counts |-> [i \in 1..Len(values) |-> Count(data, values[i])]]

----------------------------------------------------------------------------
\* DescriptiveStats.  Each operation yields [res, out]: res is what the call
\* returns or raises, out the lines it printed before that.

Done(res, out) == [res |-> res, out |-> out]

\* the MODE line of the steps
ModeLine(modes, data) ==
    IF Len(modes) = 1 THEN "Mode ="
    ELSE IF Len(modes) = Len(data) THEN "No mode (all values appear once)"
    ELSE "Modes ="

measures_of_center(data, show_steps) ==
    LET n         == Len(data)
        mean      == NpMean(data)
        median    == NpMedian(data)
        u         == NpUnique(data)
        max_count == NpMax(u.counts)
        modes     == MaskSelect(u.values, [i \in 1..Len(u.values) |-> u.counts[i] = max_count])
        p1 == IF show_steps
              THEN <<"=== MEASURES OF CENTER ===", "Sample size: n =", "Data:",
                     "MEAN CALCULATION:", "x = Sum(x)/n =",
                     "MEDIAN CALCULATION:", "Sorted data:">>
              ELSE <<>>
        p2 == IF show_steps
              THEN p1 \o <<IF n % 2 = 0 THEN "n is even: median =" ELSE "n is odd: median =">>
              ELSE p1
    IN  IF show_steps /\ n = 0 THEN Done(Raise("IndexError"), p1)
        ELSE IF n = 0 THEN Done(Raise("ValueError"), p2)
        ELSE Done(Return([mean |-> mean, median |-> median, mode |-> modes, n |-> n]),
                  IF show_steps THEN p2 \o <<"MODE:", ModeLine(modes, data)>> ELSE p2)

\* sum_squared_dev: np.sum((data - mean) ** 2)
SumSquaredDev(data) ==
    LET mean == NpMean(data)
    IN  SumSeq([i \in 1..Len(data) |->
                   FMul(FSub(Flt(data[i]), mean), FSub(Flt(data[i]), mean))])

measures_of_spread(data, show_steps) ==
    LET n        == Len(data)
        variance == NpVar(data, 1)
        std_dev  == NpStd(data, 1)
        p1 == IF show_steps
              THEN <<"=== MEASURES OF SPREAD ===", "Data:", "Mean: x =",
                     "VARIANCE CALCULATION:", "Deviations from mean:",
                     "Squared deviations:", "Sum((x - x)^2) =", "s^2 = Sum((x - x)^2)/(n-1) =",
                     "STANDARD DEVIATION:", "s = sqrt(s^2) =">>
              ELSE <<>>
    IN  IF n = 0 THEN Done(Raise("ValueError"), p1)
        ELSE Done(Return([variance |-> variance,
                          std_dev  |-> std_dev,
                          range    |-> NpMax(data) - NpMin(data),
                          min      |-> NpMin(data),
                          max      |-> NpMax(data)]),
                  IF show_steps THEN p1 \o <<"RANGE:", "Range = max - min =">> ELSE p1)

\* the outlier mask with the fences themselves counted as outside
OutlierMaskInclusive(data, lower_fence, upper_fence) ==
    [i \in 1..Len(data) |->
        FLe(Flt(data[i]), lower_fence) \/ FLe(upper_fence, Flt(data[i]))]

\* the outlier mask (data < lower_fence) | (data > upper_fence)
OutlierMask(data, lower_fence, upper_fence) ==
    [i \in 1..Len(data) |->
        FLt(Flt(data[i]), lower_fence) \/ FGt(Flt(data[i]), upper_fence)]

\* pct_empty is what np.percentile does with an empty array, which depends on
\* the numpy release: it returns NaN ("nan") or raises ("IndexError")
five_number_summary(data, show_steps, pct_empty) ==
    LET n           == Len(data)
        q1          == NpPercentile(data, 25)
        median      == NpPercentile(data, 50)
        q3          == NpPercentile(data, 75)
        iqr         == FSub(q3, q1)
        lower_fence == FSub(q1, FMul(Fin(3, 2), iqr))
        upper_fence == FAdd(q3, FMul(Fin(3, 2), iqr))
        outliers    == MaskSelect(data, OutlierMask(data, lower_fence, upper_fence))
        p1 == IF show_steps
              THEN <<"=== FIVE-NUMBER SUMMARY ===", "Sorted data:">>
              ELSE <<>>
        p2 == IF show_steps
              THEN p1 \o <<"Min =", "Q1 =", "Median =", "Q3 =", "Max =", "IQR = Q3 - Q1 =",
                           "OUTLIER DETECTION:", "Lower fence = Q1 - 1.5*IQR =",
                           "Upper fence = Q3 + 1.5*IQR =",
                           IF Len(outliers) > 0 THEN "Outliers:" ELSE "No outliers detected">>
              ELSE <<>>
    IN  IF n = 0 /\ pct_empty = "IndexError" THEN Done(Raise("IndexError"), <<>>)
        ELSE IF n = 0 THEN Done(Raise("ValueError"), p1)
        ELSE Done(Return([min         |-> NpMin(data),
                          q1          |-> q1,
                          median      |-> median,
                          q3          |-> q3,
                          max         |-> NpMax(data),
                          iqr         |-> iqr,
                          outliers    |-> outliers,
                          lower_fence |-> lower_fence,
                          upper_fence |-> upper_fence]),
                  p2)

----------------------------------------------------------------------------
\* scipy.stats.t.  The library's distribution function is taken at the levels
\* of the standard t table: TCrit[df][i] is 100 times the quantile of level
\* Levels[i] with df degrees of freedom (the last row stands for every larger
\* df), and the distribution function is the step function through them.

Levels == <<Fin(3, 4), Fin(9, 10), Fin(19, 20), Fin(39, 40), Fin(99, 100), Fin(199, 200)>>

TCrit == << <<100, 308, 631, 1271, 3182, 6366>>,
            << 82, 189, 292,  430,  696,  992>>,
            << 76, 164, 235,  318,  454,  584>>,
            << 74, 153, 213,  278,  375,  460>>,
            << 73, 148, 202,  257,  336,  403>>,
            << 72, 144, 194,  245,  314,  371>>,
            << 67, 128, 164,  196,  233,  258>> >>

TRow(df) == TCrit[IF df < Len(TCrit) THEN df ELSE Len(TCrit)]

\* |t| >= c/100 for a finite root t, decided on the squares
RootAtLeast(t, c) == (t.n * 10000) \div t.d >= c * c

\* stats.t.cdf(t, df)
TCdf(t, df) ==
    IF df <= 0 \/ t.k = "nan" THEN NaN
    ELSE IF t.k = "inf" THEN (IF t.s > 0 THEN Flt(1) ELSE Flt(0))
    ELSE LET reached == {i \in 1..Len(Levels) : RootAtLeast(t, TRow(df)[i])}
             upper   == IF reached = {} THEN Fin(1, 2)
                        ELSE Levels[CHOOSE i \in reached : \A j \in reached : j <= i]
         IN  IF t.s >= 0 THEN upper ELSE FSub(Flt(1), upper)

\* stats.t.ppf(q, df)
TPpf(q, df) ==
    IF df <= 0 \/ IsNaN(q) \/ FLt(q, Flt(0)) \/ FGt(q, Flt(1)) THEN NaN
    ELSE IF q = Flt(1) THEN Inf(1)
    ELSE IF q = Flt(0) THEN Inf(0 - 1)
    ELSE LET u     == IF FLt(q, Fin(1, 2)) THEN FSub(Flt(1), q) ELSE q
             below == {i \in 1..Len(Levels) : FLe(Levels[i], u)}
             c     == IF below = {} THEN Flt(0)
                      ELSE Fin(TRow(df)[CHOOSE i \in below : \A j \in below : j <= i], 100)
         IN  IF FLt(q, Fin(1, 2)) THEN FNeg(c) ELSE c

----------------------------------------------------------------------------
\* HypothesisTests

\* the p-value with the two one-sided tails exchanged
PValueTailsSwapped(t_stat, df, alternative) ==
    IF alternative = "two-sided"
    THEN FMul(Flt(2), FSub(Flt(1), TCdf(RAbs(t_stat), df)))
    ELSE IF alternative = "greater"
    THEN TCdf(t_stat, df)
    ELSE FSub(Flt(1), TCdf(t_stat, df))

\* the p-value of the statistic under the alternative
PValue(t_stat, df, alternative) ==
    IF alternative = "two-sided"
    THEN FMul(Flt(2), FSub(Flt(1), TCdf(RAbs(t_stat), df)))
    ELSE IF alternative = "greater"
    THEN FSub(Flt(1), TCdf(t_stat, df))
    ELSE TCdf(t_stat, df)

CriticalValue(alpha, df, alternative) ==
    IF alternative = "two-sided"
    THEN TPpf(FSub(Flt(1), FDiv(alpha, Flt(2))), df)
    ELSE TPpf(FSub(Flt(1), alpha), df)

\* reject_null decided by p_value <= alpha
RejectNullAtAlpha(p_value, alpha) == FLe(p_value, alpha)

\* reject_null
RejectNull(p_value, alpha) == FLt(p_value, alpha)

\* the interpretation string "<Reject | Fail to reject> H0 at alpha = <alpha>"
Interpretation(reject_null, alpha) ==
    [verdict |-> IF reject_null THEN "Reject" ELSE "Fail to reject", alpha |-> alpha]

\* the t statistic (mean - mu0) / (s / sqrt(n))
TStat(data, mu0) ==
    FOverR(FSub(NpMean(data), mu0), RDiv(NpStd(data, 1), FSqrt(Flt(Len(data)))))

one_sample_t_test(data, mu0, alpha, alternative, show_steps) ==
    LET n              == Len(data)
        t_stat         == TStat(data, mu0)
        df             == n - 1
        p_value        == PValue(t_stat, df, alternative)
        critical_value == CriticalValue(alpha, df, alternative)
        reject_null    == RejectNull(p_value, alpha)
        out == IF show_steps
               THEN <<"=== ONE-SAMPLE T-TEST ===", "Sample size: n =", "Sample mean: x =",
                      "Sample std dev: s =", "Hypothesized mean: mu0 =",
                      "Significance level: alpha =", "STEP 1: HYPOTHESES", "H0: mu =",
                      IF alternative = "two-sided" THEN "H1: mu !="
                      ELSE IF alternative = "greater" THEN "H1: mu >" ELSE "H1: mu <",
                      "STEP 2: TEST STATISTIC", "t = (x - mu0)/(s/sqrt(n))", "t =",
                      "STEP 3: P-VALUE", "P-value =", "Critical value =",
                      "STEP 4: DECISION", "alpha =",
                      IF reject_null THEN "P-value < alpha: REJECT H0"
                      ELSE "P-value >= alpha: FAIL TO REJECT H0">>
               ELSE <<>>
    IN  Done(Return([test_name           |-> "One-Sample t-test",
                     statistic           |-> t_stat,
                     p_value             |-> p_value,
                     critical_value      |-> critical_value,
                     confidence_interval |-> "None",
                     interpretation      |-> Interpretation(reject_null, alpha),
                     steps               |-> "None"]),
             out)

----------------------------------------------------------------------------
\* DataManager.  A name and a file name are strings, kept as sequences of
\* characters; data_dir is a function from the names of its files to the
\* arrays stored in them.

\* f"{name}.npy"
FileName(name) == name \o <<".", "n", "p", "y">>

\* str.rfind("."): the last position of a dot, 0 when there is none
LastDot(f) ==
    LET dots == {i \in 1..Len(f) : f[i] = "."}
    IN  IF dots = {} THEN 0 ELSE CHOOSE i \in dots : \A j \in dots : j <= i

\* Path.stem: the file name without its last suffix; a name whose only dot
\* leads or ends it has no suffix
Stem(f) ==
    LET i == LastDot(f)
    IN  IF 1 < i /\ i < Len(f) THEN SubSeq(f, 1, i - 1) ELSE f

\* the files data_dir.glob("*.npy") yields
GlobNpy(fs) ==
    {f \in DOMAIN fs : Len(f) >= 4 /\ SubSeq(f, Len(f) - 3, Len(f)) = <<".", "n", "p", "y">>}

None == [some |-> FALSE, data |-> <<>>]

Some(data) == [some |-> TRUE, data |-> data]

\* save_data: np.save writes (creates or overwrites) the file
save_data(fs, name, data) ==
    [f \in DOMAIN fs \cup {FileName(name)} |-> IF f = FileName(name) THEN data ELSE fs[f]]

\* load_data: the array of the file if it exists, else None
load_data(fs, name) ==
    IF FileName(name) \in DOMAIN fs THEN Some(fs[FileName(name)]) ELSE None

\* the orders in which glob may yield a set of files
Orders(S) == {o \in [1..Cardinality(S) -> S] : \A i, j \in DOMAIN o : o[i] = o[j] => i = j}

\* list_saved_data: the stems of the *.npy files, in any order glob yields them
list_saved_data(fs) == {[i \in DOMAIN o |-> Stem(o[i])] : o \in Orders(GlobNpy(fs))}

----------------------------------------------------------------------------
\* Typed text.  A line the user types is a sequence of characters.

Digits == {"0", "1", "2", "3", "4", "5", "6", "7", "8", "9"}

DigitVal(c) ==
    CASE c = "0" -> 0 [] c = "1" -> 1 [] c = "2" -> 2 [] c = "3" -> 3 [] c = "4" -> 4
      [] c = "5" -> 5 [] c = "6" -> 6 [] c = "7" -> 7 [] c = "8" -> 8 [] c = "9" -> 9

IsBlank(c) == c = " "

\* str.strip()
RECURSIVE Strip(_)
Strip(t) ==
    IF t = <<>> THEN t
    ELSE IF IsBlank(t[1]) THEN Strip(Tail(t))
    ELSE IF IsBlank(t[Len(t)]) THEN Strip(SubSeq(t, 1, Len(t) - 1))
    ELSE t

\* str.replace(",", " ")
ReplaceCommas(t) == [i \in 1..Len(t) |-> IF t[i] = "," THEN " " ELSE t[i]]

\* str.split(): the maximal runs of non-blank characters
RECURSIVE SplitFrom(_, _)
SplitFrom(t, word) ==
    IF t = <<>> THEN (IF word = <<>> THEN <<>> ELSE <<word>>)
    ELSE IF IsBlank(t[1])
         THEN (IF word = <<>> THEN <<>> ELSE <<word>>) \o SplitFrom(Tail(t), <<>>)
    ELSE SplitFrom(Tail(t), Append(word, t[1]))

Split(t) == SplitFrom(t, <<>>)

\* the number a string of digits writes
RECURSIVE DigitsVal(_)
DigitsVal(ds) ==
    IF ds = <<>> THEN 0 ELSE 10 * DigitsVal(SubSeq(ds, 1, Len(ds) - 1)) + DigitVal(ds[Len(ds)])

RECURSIVE Pow10(_)
Pow10(k) == IF k = 0 THEN 1 ELSE 10 * Pow10(k - 1)

AllDigits(ds) == \A i \in 1..Len(ds) : ds[i] \in Digits

Parsed(v) == [ok |-> TRUE, val |-> v]

ParseError == [ok |-> FALSE, val |-> NaN]

\* float(text) for the decimal literals [-]digits[.digits]; ParseError is the
\* ValueError
ParseFloat(text) ==
    LET t    == Strip(text)
        neg  == t # <<>> /\ t[1] = "-"
        body == IF neg THEN Tail(t) ELSE t
        dot  == LastDot(body)
        int  == IF dot = 0 THEN body ELSE SubSeq(body, 1, dot - 1)
        frac == IF dot = 0 THEN <<>> ELSE SubSeq(body, dot + 1, Len(body))
        v    == Fin(DigitsVal(int \o frac), Pow10(Len(frac)))
    IN  IF AllDigits(int) /\ AllDigits(frac) /\ Len(int) + Len(frac) > 0
        THEN Parsed(IF neg THEN FNeg(v) ELSE v)
        ELSE ParseError

\* int(text) for the literals [-]digits
ParseInt(text) ==
    LET t    == Strip(text)
        neg  == t # <<>> /\ t[1] = "-"
        body == IF neg THEN Tail(t) ELSE t
    IN  IF body # <<>> /\ AllDigits(body)
        THEN Parsed(Flt(IF neg THEN 0 - DigitsVal(body) ELSE DigitsVal(body)))
        ELSE ParseError

\* np.array([float(x) for x in data_str.split()]): ParseError when a token is
\* no number (the values typed in the model are whole numbers)
ParseData(data_str) ==
    LET toks == Split(ReplaceCommas(data_str))
        vals == [i \in 1..Len(toks) |-> ParseFloat(toks[i])]
    IN  IF \A i \in 1..Len(toks) : vals[i].ok
        THEN [ok |-> TRUE, val |-> [i \in 1..Len(toks) |-> vals[i].val.n \div vals[i].val.d]]
        ELSE [ok |-> FALSE, val |-> <<>>]

----------------------------------------------------------------------------
\* State

VARIABLES
    sample,   \* the sample handed to the statistics operations
    calls,    \* the statistics calls of the last operation, each with its result
    out,      \* the lines the last operation printed
    files,    \* DataManager.data_dir: file name -> stored array
    saved,    \* the save_data calls made so far: <<name, data>>, oldest first
    ret,      \* the last DataManager call and what it returned
    pc,       \* StatsCLI.main_menu: "main_menu" while the loop runs, "exited" after
    inErr     \* the error condition input collection hit in the last menu operation

vars == <<sample, calls, out, files, saved, ret, pc, inErr>>

Mu0s == {Flt(0), Flt(1)}

Alphas == {Fin(1, 100), Fin(1, 20), Fin(1, 10)}

Alternatives == {"two-sided", "greater", "less"}

\* the record of one statistics call
Call(fn, data, mu0, alpha, alternative, show_steps, res) ==
    [fn |-> fn, data |-> data, mu0 |-> mu0, alpha |-> alpha,
     alternative |-> alternative, show_steps |-> show_steps, res |-> res]

DescCall(fn, data, show_steps, res) == Call(fn, data, NaN, NaN, "", show_steps, res)

NoReturn == [op |-> "none", name |-> <<>>, value |-> [some |-> FALSE, data |-> <<>>], names |-> <<>>]

----------------------------------------------------------------------------
\* StatsCLI.  A menu handler is the set of the outcomes it can have over the
\* lines the user may type: [exc, data, out, calls, err], exc the exception
\* that leaves it ("" when it returns), data what it returns, out the lines it
\* printed, calls the statistics calls it made, err the error condition its
\* input collection met ("malformed", "empty", "unknown_dataset",
\* "unreadable_file", or "none").

\* Bound of the model: the longest line typed at the values prompt
MaxText == 2

TextChars == {"1", ",", "x", "-"}

DataLines == SeqsUpTo(TextChars, MaxText)

\* input() interrupted by Ctrl-C: KeyboardInterrupt
INT == <<"^C">>

Ans(lines) == lines \cup {INT}

Outcome(exc, data, prints, made, err) ==
    [exc |-> exc, data |-> data, out |-> prints, calls |-> made, err |-> err]

Interrupted(prints) == Outcome("KeyboardInterrupt", None, prints, <<>>, "none")

\* what pd.read_csv and the column selection yield: an exception, or the
\* values of the column
CsvReads == {[ok |-> FALSE, data |-> <<>>], [ok |-> TRUE, data |-> <<>>],
             [ok |-> TRUE, data |-> <<1, 0>>]}

\* DataManager.load_csv: any exception is printed and None returned
load_csv(read, prints) ==
    IF read.ok
    THEN Outcome("", Some(read.data), prints, <<>>, IF read.data = <<>> THEN "empty" ELSE "none")
    ELSE Outcome("", None, prints \o <<"Error loading CSV:">>, <<>>, "unreadable_file")

DataOptions == <<"Data input options:", "1. Enter values manually", "2. Load from CSV file",
                 "3. Use saved data", "Choose option (1-3):">>

\* get_data_input, option 1
EnterManually(prints) ==
    LET p == prints \o <<"Enter values separated by spaces or commas:">>
    IN  {IF data_str = INT THEN Interrupted(p)
         ELSE LET d == ParseData(data_str)
              IN  IF d.ok
                  THEN Outcome("", Some(d.val), p, <<>>,
                               IF d.val = <<>> THEN "empty" ELSE "none")
                  ELSE Outcome("", None,
                               p \o <<"Invalid data format. Please enter numeric values.">>,
                               <<>>, "malformed")
         : data_str \in Ans(DataLines)}

\* get_data_input, option 2
LoadFromCsv(prints) ==
    LET p1 == prints \o <<"Enter CSV file path:">>
        p2 == p1 \o <<"Enter column name (or press Enter for first numeric column):">>
    IN  {Interrupted(p1), Interrupted(p2)} \cup {load_csv(read, p2) : read \in CsvReads}

DatasetLines == {<<"0">>, <<"1">>, <<"2">>, <<"x">>}

\* get_data_input, option 3
UseSavedData(fs, prints) ==
    UNION {
        IF saved_data = <<>>
        THEN {Outcome("", None, prints \o <<"No saved data found.">>, <<>>, "unknown_dataset")}
        ELSE LET p == prints \o <<"Saved datasets:">>
                           \o [i \in 1..Len(saved_data) |-> "{i}. {name}"]
                           \o <<"Choose dataset:">>
             IN  {IF a = INT THEN Interrupted(p)
                  ELSE LET i   == ParseInt(a)
                           idx == i.val.n - 1
                       IN  IF ~i.ok
                           THEN Outcome("", None, p \o <<"Invalid selection.">>, <<>>, "malformed")
                           ELSE IF 0 <= idx /\ idx < Len(saved_data)
                           THEN LET got == load_data(fs, saved_data[idx + 1])
                                IN  Outcome("", got, p, <<>>,
                                            IF ~got.some THEN "unknown_dataset"
                                            ELSE IF got.data = <<>> THEN "empty" ELSE "none")
                           ELSE Outcome("", None, p \o <<"Invalid selection.">>, <<>>,
                                        "unknown_dataset")
                  : a \in Ans(DatasetLines)}
        : saved_data \in list_saved_data(fs)}

OptionLines == {<<"1">>, <<"2">>, <<"3">>, <<"9">>}

get_data_input(fs) ==
    UNION {
        IF a = INT THEN {Interrupted(DataOptions)}
        ELSE IF Strip(a) = <<"1">> THEN EnterManually(DataOptions)
        ELSE IF Strip(a) = <<"2">> THEN LoadFromCsv(DataOptions)
        ELSE IF Strip(a) = <<"3">> THEN UseSavedData(fs, DataOptions)
        ELSE {Outcome("", None, DataOptions, <<>>, "none")}
        : a \in Ans(OptionLines)}

\* one descriptive operation, printing its steps
ApplyDescriptive(fn, data, pct_empty) ==
    IF fn = "measures_of_center" THEN measures_of_center(data, TRUE)
    ELSE IF fn = "measures_of_spread" THEN measures_of_spread(data, TRUE)
    ELSE five_number_summary(data, TRUE, pct_empty)

\* the operations of fns called in turn, up to the first that raises
RECURSIVE RunAll(_, _, _)
RunAll(fns, data, pct_empty) ==
    IF fns = <<>> THEN [exc |-> "", out |-> <<>>, calls |-> <<>>]
    ELSE The({
             LET c == DescCall(fns[1], data, TRUE, r.res)
             IN  IF r.res.kind = "raise"
                 THEN [exc |-> r.res.exc, out |-> r.out, calls |-> <<c>>]
                 ELSE The({[exc |-> rest.exc, out |-> r.out \o rest.out,
                            calls |-> <<c>> \o rest.calls]
                           : rest \in {RunAll(Tail(fns), data, pct_empty)}})
             : r \in {ApplyDescriptive(fns[1], data, pct_empty)}})

AnalysisLines == {<<"1">>, <<"2">>, <<"3">>, <<"4">>, <<"9">>}

\* the operations the analysis choice selects
Analyses(choice) ==
    IF choice = <<"1">> THEN <<"measures_of_center">>
    ELSE IF choice = <<"2">> THEN <<"measures_of_spread">>
    ELSE IF choice = <<"3">> THEN <<"five_number_summary">>
    ELSE IF choice = <<"4">>
    THEN <<"measures_of_center", "measures_of_spread", "five_number_summary">>
    ELSE <<>>

descriptive_menu(fs) ==
    UNION {
        LET p0 == <<"=== DESCRIPTIVE STATISTICS ===">> \o g.out
            p1 == p0 \o <<"Choose analysis:", "1. Measures of Center", "2. Measures of Spread",
                          "3. Five-Number Summary", "4. All Statistics", "Enter choice (1-4):">>
        IN  IF g.exc # "" \/ ~g.data.some THEN {Outcome(g.exc, None, p0, <<>>, g.err)}
            ELSE {IF a = INT THEN Outcome("KeyboardInterrupt", None, p1, <<>>, g.err)
                  ELSE The({Outcome(r.exc, None, p1 \o r.out, r.calls, g.err)
                            : r \in {RunAll(Analyses(Strip(a)), g.data.data, pct_empty)}})
                  : a \in Ans(AnalysisLines), pct_empty \in {"nan", "IndexError"}}
        : g \in get_data_input(fs)}

Mu0Lines == {<<"0">>, <<"1">>, <<"x">>}

AlphaLines == {<<>>, <<"0", ".", "1">>, <<"x">>}

AlternativeLines == {<<"1">>, <<"2">>, <<"3">>, <<"9">>}

\* {'1': 'two-sided', '2': 'greater', '3': 'less'}.get(alt_choice, 'two-sided')
AlternativeOf(alt_choice) ==
    IF alt_choice = <<"2">> THEN "greater"
    ELSE IF alt_choice = <<"3">> THEN "less"
    ELSE "two-sided"

\* hypothesis_menu from the prompt for mu0 on, the sample being collected
TTestPrompts(g, p0) ==
    LET p1 == p0 \o <<"Enter hypothesized mean (mu0):">>
        p2 == p1 \o <<"Enter significance level (default 0.05):">>
        p3 == p2 \o <<"Alternative hypothesis (1=two-sided, 2=greater, 3=less):">>
    IN  UNION {
            IF m = INT THEN {Outcome("KeyboardInterrupt", None, p1, <<>>, g.err)}
            ELSE IF ~ParseFloat(m).ok THEN {Outcome("ValueError", None, p1, <<>>, "malformed")}
            ELSE UNION {
                IF al = INT THEN {Outcome("KeyboardInterrupt", None, p2, <<>>, g.err)}
                ELSE LET alpha == ParseFloat(IF al = <<>> THEN <<"0", ".", "0", "5">> ELSE al)
                     IN  IF ~alpha.ok THEN {Outcome("ValueError", None, p2, <<>>, "malformed")}
                         ELSE {IF alt = INT
                               THEN Outcome("KeyboardInterrupt", None, p3, <<>>, g.err)
                               ELSE LET alternative == AlternativeOf(Strip(alt))
                                    IN  The({Outcome("", None, p3 \o r.out,
                                                     <<Call("one_sample_t_test", g.data.data,
                                                            ParseFloat(m).val, alpha.val,
                                                            alternative, TRUE, r.res)>>,
                                                     g.err)
                                             : r \in {one_sample_t_test(
                                                          g.data.data, ParseFloat(m).val,
                                                          alpha.val, alternative, TRUE)}})
                               : alt \in Ans(AlternativeLines)}
                : al \in Ans(AlphaLines)}
            : m \in Ans(Mu0Lines)}

hypothesis_menu(fs) ==
    LET p == <<"=== HYPOTHESIS TESTING ===", "1. One-Sample t-test", "Enter choice (1):">>
    IN  UNION {
            IF a = INT THEN {Interrupted(p)}
            ELSE IF Strip(a) # <<"1">> THEN {Outcome("", None, p, <<>>, "none")}
            ELSE UNION {
                IF g.exc # "" \/ ~g.data.some THEN {Outcome(g.exc, None, p \o g.out, <<>>, g.err)}
                ELSE TTestPrompts(g, p \o g.out)
                : g \in get_data_input(fs)}
            : a \in Ans({<<"1">>, <<"9">>})}

data_management_menu(fs) ==
    LET p == <<"=== DATA MANAGEMENT ===", "1. List saved data", "2. Save current data",
               "3. Load saved data", "Enter choice (1-3):">>
    IN  UNION {
            IF a = INT THEN {Interrupted(p)}
            ELSE IF Strip(a) # <<"1">> THEN {Outcome("", None, p, <<>>, "none")}
            ELSE {Outcome("", None,
                          IF saved_data # <<>>
                          THEN p \o <<"Saved datasets:">>
                                 \o [i \in 1..Len(saved_data) |-> "{i}. {name}"]
                          ELSE p \o <<"No saved data found.">>,
                          <<>>, "none")
                  : saved_data \in list_saved_data(fs)}
            : a \in Ans({<<"1">>, <<"2">>, <<"3">>})}

test_scores == <<85, 92, 78, 88, 95, 82, 79, 91, 87, 84>>

sample_data_demo ==
    The({Outcome("", None,
                 <<"=== SAMPLE DATA DEMONSTRATION ===", "Using sample test scores:",
                   "Running complete analysis...">> \o d.out
                 \o <<"HYPOTHESIS TEST EXAMPLE", "Testing if mean test score = 85">> \o t.out,
                 d.calls \o <<Call("one_sample_t_test", test_scores, Flt(85), Fin(1, 20),
                                   "two-sided", TRUE, t.res)>>,
                 "none")
         : d \in {RunAll(<<"measures_of_center", "measures_of_spread", "five_number_summary">>,
                         test_scores, "nan")},
           t \in {one_sample_t_test(test_scores, Flt(85), Fin(1, 20), "two-sided", TRUE)}})

help_menu == Outcome("", None, <<"=== STATISTICS TOOLKIT HELP ===">>, <<>>, "none")

----------------------------------------------------------------------------
\* The statistics operations called on a sample

InitStats ==
    /\ sample \in Samples
    /\ calls = <<>>
    /\ out = <<>>
    /\ files = <<>>
    /\ saved = <<>>
    /\ ret = NoReturn
    /\ pc = "main_menu"
    /\ inErr = "none"

CallMeasuresOfCenter ==
    /\ calls = <<>>
    /\ \E show_steps \in BOOLEAN :
          \E r \in {measures_of_center(sample, show_steps)} :
              /\ calls' = <<DescCall("measures_of_center", sample, show_steps, r.res)>>
              /\ out' = r.out
    /\ UNCHANGED <<sample, files, saved, ret, pc, inErr>>

CallMeasuresOfSpread ==
    /\ calls = <<>>
    /\ \E show_steps \in BOOLEAN :
          \E r \in {measures_of_spread(sample, show_steps)} :
              /\ calls' = <<DescCall("measures_of_spread", sample, show_steps, r.res)>>
              /\ out' = r.out
    /\ UNCHANGED <<sample, files, saved, ret, pc, inErr>>

CallFiveNumberSummary ==
    /\ calls = <<>>
    /\ \E show_steps \in BOOLEAN, pct_empty \in {"nan", "IndexError"} :
          \E r \in {five_number_summary(sample, show_steps, pct_empty)} :
              /\ calls' = <<DescCall("five_number_summary", sample, show_steps, r.res)>>
              /\ out' = r.out
    /\ UNCHANGED <<sample, files, saved, ret, pc, inErr>>

CallOneSampleTTest ==
    /\ calls = <<>>
    /\ \E mu0 \in Mu0s, alpha \in Alphas, alternative \in Alternatives, show_steps \in BOOLEAN :
          \E r \in {one_sample_t_test(sample, mu0, alpha, alternative, show_steps)} :
              /\ calls' = <<Call("one_sample_t_test", sample, mu0, alpha, alternative,
                                 show_steps, r.res)>>
              /\ out' = r.out
    /\ UNCHANGED <<sample, files, saved, ret, pc, inErr>>

NextStats ==
    \/ CallMeasuresOfCenter
    \/ CallMeasuresOfSpread
    \/ CallFiveNumberSummary
    \/ CallOneSampleTTest

SpecStats == InitStats /\ [][NextStats]_vars

----------------------------------------------------------------------------
\* Properties of the statistics operations (SpecStats)

Range(s) == {s[i] : i \in 1..Len(s)}

AllEqual(data) == \A i, j \in 1..Len(data) : data[i] = data[j]

AllUnique(data) == \A i, j \in 1..Len(data) : data[i] = data[j] => i = j

Returned(c) == c.res.kind = "return"

Raised(c) == c.res.kind = "raise"

CallsOf(fns) == {i \in 1..Len(calls) : calls[i].fn \in fns}

\* sum of the values and of their squares, as integers
RECURSIVE IntSum(_)
IntSum(s) == IF s = <<>> THEN 0 ELSE s[1] + IntSum(Tail(s))

RECURSIVE IntSumSq(_)
IntSumSq(s) == IF s = <<>> THEN 0 ELSE s[1] * s[1] + IntSumSq(Tail(s))

\* C1: measures_of_center, measures_of_spread and five_number_summary on an
\* empty sample, and measures_of_spread on a one-element sample, fail with an
\* error; none of these calls returns a result that holds a NaN.
C1_DegenerateSampleFails ==
    \A i \in CallsOf({"measures_of_center", "measures_of_spread", "five_number_summary"}) :
        LET c == calls[i]
        IN  (Len(c.data) = 0 \/ (c.fn = "measures_of_spread" /\ Len(c.data) = 1))
            => /\ Raised(c)
               /\ ~(Returned(c) /\ c.fn = "measures_of_spread"
                    /\ (IsNaN(c.res.value.variance) \/ c.res.value.std_dev.k = "nan"))

\* C2: one_sample_t_test on a constant sample (s = 0) or on a sample with
\* n < 2 fails with an error; it never returns a StatResult whose statistic or
\* p-value is NaN or infinite.
C2_DegenerateTTestFails ==
    \A i \in CallsOf({"one_sample_t_test"}) :
        LET c == calls[i]
        IN  /\ (Len(c.data) < 2 \/ AllEqual(c.data)) => Raised(c)
            /\ Returned(c) => /\ c.res.value.statistic.k = "fin"
                              /\ c.res.value.p_value.k = "fin"

\* C3: for a non-empty sample measures_of_center reports as mode exactly the
\* values of maximum frequency, except that when every value is unique the
\* result signals "no mode" instead of reporting n modes (read here on the
\* printed steps, the only place the code can signal it).
C3_ModeOrNoMode ==
    \A i \in CallsOf({"measures_of_center"}) :
        LET c == calls[i]
        IN  (Len(c.data) >= 1 /\ c.show_steps)
            => /\ Returned(c)
               /\ IF AllUnique(c.data)
                  THEN "No mode (all values appear once)" \in Range(out)
                  ELSE /\ "No mode (all values appear once)" \notin Range(out)
                       /\ Range(c.res.value.mode) =
                             {v \in Range(c.data) :
                                 \A w \in Range(c.data) : Count(c.data, w) <= Count(c.data, v)}
                       /\ Len(c.res.value.mode) = Cardinality(Range(c.res.value.mode))

\* C4: one_sample_t_test rejects the null hypothesis iff the p-value is
\* strictly below alpha, and the interpretation says "Reject" exactly when it
\* rejects and "Fail to reject" otherwise.
C4_DecisionIffPBelowAlpha ==
    \A i \in CallsOf({"one_sample_t_test"}) :
        LET c == calls[i]
            r == c.res.value
            below == /\ r.p_value.k = "fin"
                     /\ r.p_value.n * c.alpha.d < c.alpha.n * r.p_value.d
        IN  /\ Returned(c)
            /\ r.interpretation.verdict = (IF below THEN "Reject" ELSE "Fail to reject")
            /\ r.interpretation.alpha = c.alpha
            /\ c.show_steps =>
                  (IF below THEN "P-value < alpha: REJECT H0"
                   ELSE "P-value >= alpha: FAIL TO REJECT H0") \in Range(out)

C4_Witness ==
    \E i \in CallsOf({"one_sample_t_test"}) :
        /\ calls[i].res.value.interpretation.verdict = "Reject"
        /\ calls[i].res.value.p_value.k = "fin"
        /\ calls[i].res.value.statistic.k = "fin"
        /\ calls[i].alternative = "less"

\* v lies strictly outside [lo, hi]
StrictlyOutside(v, lo, hi) == v * lo.d < lo.n \/ v * hi.d > hi.n

\* C5: for a non-empty sample the outliers of five_number_summary are exactly
\* the sample values strictly below Q1 - 1.5*IQR or strictly above
\* Q3 + 1.5*IQR: every such value, as often as it occurs, and no other.
C5_OutliersStrictlyOutsideFences ==
    \A i \in CallsOf({"five_number_summary"}) :
        LET c == calls[i]
            r == c.res.value
        IN  Len(c.data) >= 1
            => /\ Returned(c)
               /\ r.iqr = FSub(r.q3, r.q1)
               /\ r.lower_fence = FSub(r.q1, FMul(Fin(3, 2), r.iqr))
               /\ r.upper_fence = FAdd(r.q3, FMul(Fin(3, 2), r.iqr))
               /\ \A v \in Values \cup Range(c.data) :
                     Count(r.outliers, v) =
                        IF StrictlyOutside(v, r.lower_fence, r.upper_fence)
                        THEN Count(c.data, v) ELSE 0

C5_Witness ==
    \E i \in CallsOf({"five_number_summary"}) :
        /\ Returned(calls[i])
        /\ calls[i].res.value.outliers # <<>>
        /\ Len(calls[i].res.value.outliers) < Len(calls[i].data)

\* C8: for n >= 2 measures_of_spread returns the sum of squared deviations
\* from the mean divided by n-1 as variance (n(n-1) * variance =
\* n * Sum(x^2) - Sum(x)^2), a std_dev whose square is that variance, and
\* max - min as range.
C8_BesselVarianceStdRange ==
    \A i \in CallsOf({"measures_of_spread"}) :
        LET c == calls[i]
            r == c.res.value
            n == Len(c.data)
        IN  n >= 2
            => /\ Returned(c)
               /\ r.variance.k = "fin"
               /\ r.variance.n * n * (n - 1) =
                     r.variance.d * (n * IntSumSq(c.data) - IntSum(c.data) * IntSum(c.data))
               /\ r.std_dev.k = "fin" /\ r.std_dev.s >= 0
               /\ r.std_dev.n * r.variance.d = r.variance.n * r.std_dev.d
               /\ \E a, b \in 1..n : r.range = c.data[a] - c.data[b]
               /\ \A a, b \in 1..n : c.data[a] - c.data[b] <= r.range

C8_Witness ==
    \E i \in CallsOf({"measures_of_spread"}) :
        /\ Returned(calls[i])
        /\ Len(calls[i].data) >= 3
        /\ calls[i].res.value.variance.n > 0
        /\ calls[i].res.value.range > 1

\* C9: for n >= 2 and s > 0 one_sample_t_test computes
\* t = (mean - mu0)/(s/sqrt(n)) (its sign that of Sum(x) - n*mu0, its square
\* (n-1)(Sum(x) - n*mu0)^2 / (n*Sum(x^2) - Sum(x)^2)), and with df = n-1 the
\* p-value 2(1 - CDF(|t|)) two-sided, 1 - CDF(t) greater, CDF(t) less.
C9_TStatisticAndPValue ==
    \A i \in CallsOf({"one_sample_t_test"}) :
        LET c   == calls[i]
            r   == c.res.value
            n   == Len(c.data)
            num == IntSum(c.data) * c.mu0.d - n * c.mu0.n
            ssd == n * IntSumSq(c.data) - IntSum(c.data) * IntSum(c.data)
            t   == r.statistic
            cdf == TCdf(t, n - 1)
        IN  (n >= 2 /\ ~AllEqual(c.data))
            => /\ Returned(c)
               /\ t.k = "fin"
               /\ t.s = Sgn(num)
               /\ t.n * c.mu0.d * c.mu0.d * ssd = t.d * (n - 1) * num * num
               /\ c.alternative = "two-sided" =>
                     r.p_value = FMul(Flt(2), FSub(Flt(1), TCdf(RAbs(t), n - 1)))
               /\ c.alternative = "greater" => r.p_value = FSub(Flt(1), cdf)
               /\ c.alternative = "less" => r.p_value = cdf

C9_Witness ==
    \E i \in CallsOf({"one_sample_t_test"}) :
        /\ Len(calls[i].data) >= 3
        /\ ~AllEqual(calls[i].data)
        /\ calls[i].alternative = "greater"
        /\ calls[i].res.value.statistic.s < 0
        /\ FGt(calls[i].res.value.p_value, Fin(1, 2))

\* C10: every StatResult of one_sample_t_test carries a p-value that is a
\* real number in [0, 1].
C10_PValueInUnitInterval ==
    \A i \in CallsOf({"one_sample_t_test"}) :
        Returned(calls[i])
        => /\ calls[i].res.value.p_value.k = "fin"
           /\ 0 <= calls[i].res.value.p_value.n
           /\ calls[i].res.value.p_value.n <= calls[i].res.value.p_value.d

----------------------------------------------------------------------------
\* The DataManager operations called on one storage directory

\* Bound of the model: the number of save_data calls
MaxSaves == 3

StoreNames == {<<>>, <<"a">>, <<"a", ".", "b">>}

StoreArrays == {<<>>, <<1, 0>>}

DmReturn(op, name, value, names) == [op |-> op, name |-> name, value |-> value, names |-> names]

InitStore ==
    /\ sample = <<>>
    /\ calls = <<>>
    /\ out = <<>>
    /\ files = <<>>
    /\ saved = <<>>
    /\ ret = NoReturn
    /\ pc = "main_menu"
    /\ inErr = "none"

SaveData ==
    /\ Len(saved) < MaxSaves
    /\ \E name \in StoreNames, data \in StoreArrays :
          /\ files' = save_data(files, name, data)
          /\ saved' = Append(saved, <<name, data>>)
          /\ ret' = DmReturn("save_data", name, None, <<>>)
    /\ out' = <<"Data saved as">>
    /\ UNCHANGED <<sample, calls, pc, inErr>>

LoadData ==
    /\ \E name \in StoreNames :
          ret' = DmReturn("load_data", name, load_data(files, name), <<>>)
    /\ out' = <<>>
    /\ UNCHANGED <<sample, calls, files, saved, pc, inErr>>

ListSavedData ==
    /\ \E names \in list_saved_data(files) :
          ret' = DmReturn("list_saved_data", <<>>, None, names)
    /\ out' = <<>>
    /\ UNCHANGED <<sample, calls, files, saved, pc, inErr>>

NextStore ==
    \/ SaveData
    \/ LoadData
    \/ ListSavedData

SpecStore == InitStore /\ [][NextStore]_vars

\* the save_data calls made under a name, by position in the history
SavesOf(name) == {i \in 1..Len(saved) : saved[i][1] = name}

SavedNames == {saved[i][1] : i \in 1..Len(saved)}

\* C7: load_data(name) returns the sample most recently saved under that name
\* (last write wins) and None for a name never saved; list_saved_data returns
\* exactly the names saved so far, each once.
C7_LastWriteWinsAndListing ==
    /\ ret.op = "load_data" =>
          IF SavesOf(ret.name) = {} THEN ret.value = None
          ELSE LET last == CHOOSE i \in SavesOf(ret.name) : \A j \in SavesOf(ret.name) : j <= i
               IN  ret.value = Some(saved[last][2])
    /\ ret.op = "list_saved_data" =>
          /\ Range(ret.names) = SavedNames
          /\ Len(ret.names) = Cardinality(SavedNames)

\* The same with the empty name left out of the saves: the listing then is
\* exact (checked with the claim, not part of it).
StoreExactForNonEmptyNames ==
    (\A i \in 1..Len(saved) : saved[i][1] # <<>>) => C7_LastWriteWinsAndListing

----------------------------------------------------------------------------
\* StatsCLI.main_menu: one action per pass of the loop and choice

MainMenu == <<"STATISTICS TOOLKIT - MAIN MENU", "1.  Descriptive Statistics",
              "2.  Hypothesis Testing", "3.  Data Management", "4.  Sample Data Demo",
              "5.  Help", "0.  Exit", "Enter your choice (0-5):">>

\* the storage directories a session may find: empty, or left by earlier
\* save_data("a", [1, 0]) and save_data("", [])
Dirs == {<<>>, save_data(save_data(<<>>, <<"a">>, <<1, 0>>), <<>>, <<>>)}

InitCLI ==
    /\ sample = <<>>
    /\ calls = <<>>
    /\ out = <<>>
    /\ files \in Dirs
    /\ saved = <<>>
    /\ ret = NoReturn
    /\ pc = "main_menu"
    /\ inErr = "none"

\* the loop with "except Exception" leaving it as "except KeyboardInterrupt" does
DispatchLeavesOnError(o) ==
    /\ pc' = IF o.exc # "" THEN "exited" ELSE "main_menu"
    /\ out' = MainMenu \o o.out \o
                (IF o.exc = "KeyboardInterrupt" THEN <<"Exiting...">>
                 ELSE IF o.exc # "" THEN <<"An error occurred:">>
                 ELSE <<>>)
    /\ calls' = o.calls
    /\ inErr' = o.err
    /\ UNCHANGED <<sample, files, saved, ret>>

\* the try/except of the loop around a submenu that ended as o did
Dispatch(o) ==
    /\ pc' = IF o.exc = "KeyboardInterrupt" THEN "exited" ELSE "main_menu"
    /\ out' = MainMenu \o o.out \o
                (IF o.exc = "KeyboardInterrupt" THEN <<"Exiting...">>
                 ELSE IF o.exc # "" THEN <<"An error occurred:">>
                 ELSE <<>>)
    /\ calls' = o.calls
    /\ inErr' = o.err
    /\ UNCHANGED <<sample, files, saved, ret>>

MainMenuExit ==
    /\ pc = "main_menu"
    /\ pc' = "exited"
    /\ out' = MainMenu \o <<"Thank you for using the Statistics Toolkit!">>
    /\ calls' = <<>>
    /\ inErr' = "none"
    /\ UNCHANGED <<sample, files, saved, ret>>

MainMenuInterrupt ==
    /\ pc = "main_menu"
    /\ Dispatch(Interrupted(<<>>))

MainMenuDescriptive ==
    /\ pc = "main_menu"
    /\ \E o \in descriptive_menu(files) : Dispatch(o)

MainMenuHypothesis ==
    /\ pc = "main_menu"
    /\ \E o \in hypothesis_menu(files) : Dispatch(o)

MainMenuDataManagement ==
    /\ pc = "main_menu"
    /\ \E o \in data_management_menu(files) : Dispatch(o)

MainMenuSampleDemo ==
    /\ pc = "main_menu"
    /\ \E o \in {sample_data_demo} : Dispatch(o)

MainMenuHelp ==
    /\ pc = "main_menu"
    /\ Dispatch(help_menu)

MainMenuInvalid ==
    /\ pc = "main_menu"
    /\ Dispatch(Outcome("", None, <<"Invalid choice. Please enter a number from 0-5.">>,
                        <<>>, "none"))

\* input() at the end of the input stream raises EOFError, an Exception
MainMenuEndOfInput ==
    /\ pc = "main_menu"
    /\ Dispatch(Outcome("EOFError", None, <<>>, <<>>, "none"))

NextCLI ==
    \/ MainMenuExit
    \/ MainMenuInterrupt
    \/ MainMenuDescriptive
    \/ MainMenuHypothesis
    \/ MainMenuDataManagement
    \/ MainMenuSampleDemo
    \/ MainMenuHelp
    \/ MainMenuInvalid
    \/ MainMenuEndOfInput

SpecCLI == InitCLI /\ [][NextCLI]_vars

----------------------------------------------------------------------------
\* Properties of the menus (SpecCLI)

ErrorMessages == {"Invalid data format. Please enter numeric values.", "Error loading CSV:",
                  "No saved data found.", "Invalid selection.", "An error occurred:"}

StatHeaders == {"=== MEASURES OF CENTER ===", "=== MEASURES OF SPREAD ===",
                "=== FIVE-NUMBER SUMMARY ===", "=== ONE-SAMPLE T-TEST ==="}

\* C6: whenever input collection meets an error condition (malformed numeric
\* text, an empty sample, an unknown dataset, an unreadable file) and the user
\* does not interrupt, a message is reported, no statistics call is made on
\* the input, nothing of a result is printed, the prompt for the data is shown
\* once (no retry) and control is back in the main menu.
C6_InputErrorAborts ==
    (inErr # "none" /\ "Exiting..." \notin Range(out))
    => /\ Range(out) \cap ErrorMessages # {}
       /\ calls = <<>>
       /\ Range(out) \cap StatHeaders = {}
       /\ Cardinality({i \in 1..Len(out) : out[i] = "Choose option (1-3):"}) = 1
       /\ pc = "main_menu"

ExitMessages == {"Thank you for using the Statistics Toolkit!", "Exiting..."}

\* C11: every pass of the main menu loop shows the menu and its prompt; the
\* pass leaves the loop exactly when it ends with the farewell of choice '0'
\* or with the message of a KeyboardInterrupt; after every other pass, an
\* invalid choice and an exception reported as "An error occurred" included,
\* the loop is back at the main menu, where a further pass can be taken.
C11_LoopLeavesOnlyOnExitOrInterrupt ==
    /\ [](pc = "main_menu" => ENABLED MainMenuInvalid)
    /\ [](pc = "exited" => ~ENABLED NextCLI)
    /\ [][/\ pc = "main_menu"
          /\ Len(out') > Len(MainMenu)
          /\ SubSeq(out', 1, Len(MainMenu)) = MainMenu
          /\ pc' \in {"main_menu", "exited"}
          /\ (pc' = "exited") <=> (out'[Len(out')] \in ExitMessages)
          /\ (out'[Len(out')] \in {"An error occurred:",
                                   "Invalid choice. Please enter a number from 0-5."})
                => pc' = "main_menu"]_vars

\* a statistics call raised inside a submenu, the error was reported and the
\* loop is at the main menu again
C11_Witness ==
    /\ pc = "main_menu"
    /\ calls # <<>>
    /\ calls[Len(calls)].res.kind = "raise"
    /\ out[Len(out)] = "An error occurred:"

====
